---------------------------- MODULE Spec2Model ----------------------------
(***************************************************************************)
(* A model of scripts/add_episode.py: one invocation of main() validates   *)
(* its inputs, gathers the audio metadata, renders an <item> fragment and  *)
(* an HTML block, and splices them into feed.xml and index.html.           *)
(*                                                                         *)
(* Text is a sequence of tokens.  A token is either one character that the *)
(* code treats specially ("-", ",", " ", the line break NL) or an atomic   *)
(* piece of text (a tag, a word) that no search literal of the code can    *)
(* straddle, so str.find, str.replace, str.split, str.strip and the        *)
(* regular expression act on tokens exactly as they act on characters.     *)
(* Offsets are Python's: 0-based, -1 for "not found"; a slice at -1 cuts   *)
(* the last token before its last character.                               *)
(***************************************************************************)
EXTENDS Integers, Sequences, FiniteSets, TLC

(***************************************************************************)
(* Bounds of the model.                                                    *)
(***************************************************************************)
\* invocations of the tool in one behaviour of Spec, SpecRepeat and SpecIndex
MaxRuns == 2
\* tokens of the initial feed document in Spec
MaxDocLen == 3
\* tokens of the initial feed document in SpecFeed and SpecRepeat
MaxFeedLen == 4
\* tokens of the initial index document in SpecIndex
MaxIndexLen == 4
\* tokens of --title in SpecArgs
MaxTitleLen == 4
\* tokens of --categories in SpecArgs
MaxCatLen == 4

(***************************************************************************)
(* Tokens.                                                                 *)
(***************************************************************************)
NL == "\n"
SP == "  "
ItemTag == "<item>"
ChannelEnd == "</channel>"
LbdOpen == "<lastBuildDate>"
LbdClose == "</lastBuildDate>"
MainTag == "<main>"
CommentOpen == "<!-- Episode: "
CommentClose == " -->"

BASE_URL == "https://manuelcorpas.github.io/podcast"
DEFAULT_IMAGE == "https://corpasfoo.files.wordpress.com/2017/06/podcast.jpg?fit=3000%2C3000"

MONTHS ==
  << "", "January", "February", "March", "April", "May", "June",
     "July", "August", "September", "October", "November", "December" >>

(***************************************************************************)
(* Python's string primitives on token sequences.                          *)
(***************************************************************************)
MinOf(S) == CHOOSE m \in S : \A n \in S : m <= n

\* s.find(tok, start): the offset of the first occurrence at or after start
FindFrom(s, tok, start) ==
  LET hits == { i \in 1..Len(s) : s[i] = tok /\ i - 1 >= start }
  IN  IF hits = {} THEN -1 ELSE MinOf(hits) - 1

\* s.find(tok)
Find(s, tok) == FindFrom(s, tok, 0)

\* the one-character tokens
OneChar == { NL, "-", ",", " " }

\* t[:-1] and t[-1:] of a token that can end a feed with neither anchor in it
ButLastChar(t) ==
  CASE t \in OneChar -> << >>
    [] t = SP -> << " " >>
    [] t = LbdOpen -> << "<lastBuildDate" >>
    [] t = LbdClose -> << "</lastBuildDate" >>
    [] t = ItemTag -> << "<item" >>
    [] t = ChannelEnd -> << "</channel" >>

LastChar(t) ==
  CASE t \in OneChar -> t
    [] t = SP -> " "
    [] t \in { LbdOpen, LbdClose, ItemTag, ChannelEnd } -> ">"

\* s[:p] for an offset p that str.find returned: a token boundary, or -1, which
\* Python counts from the end, so that the slice drops the last character
PyHead(s, p) ==
  IF p >= 0 THEN SubSeq(s, 1, IF p > Len(s) THEN Len(s) ELSE p)
  ELSE IF Len(s) = 0 THEN << >>
  ELSE SubSeq(s, 1, Len(s) - 1) \o ButLastChar(s[Len(s)])

\* s[p:], likewise: s[-1:] is the last character
PyTail(s, p) ==
  IF p >= 0 THEN SubSeq(s, (IF p > Len(s) THEN Len(s) ELSE p) + 1, Len(s))
  ELSE IF Len(s) = 0 THEN << >>
  ELSE << LastChar(s[Len(s)]) >>

\* s.replace("--", "-"): non-overlapping occurrences, left to right
RECURSIVE ReplaceDoubleHyphen(_)
ReplaceDoubleHyphen(s) ==
  IF Len(s) = 0 THEN << >>
  ELSE IF Len(s) >= 2 /\ s[1] = "-" /\ s[2] = "-"
       THEN << "-" >> \o ReplaceDoubleHyphen(SubSeq(s, 3, Len(s)))
       ELSE << s[1] >> \o ReplaceDoubleHyphen(Tail(s))

\* s.split(","): always at least one entry
RECURSIVE SplitComma(_)
SplitComma(s) ==
  LET i == Find(s, ",")
  IN  IF i = -1 THEN << s >>
      ELSE << PyHead(s, i) >> \o SplitComma(PyTail(s, i + 1))

\* c.strip()
RECURSIVE Strip(_)
Strip(c) ==
  IF Len(c) = 0 THEN c
  ELSE IF c[1] = " " THEN Strip(Tail(c))
  ELSE IF c[Len(c)] = " " THEN Strip(SubSeq(c, 1, Len(c) - 1))
  ELSE c

\* list.insert(i, x)
ListInsert(l, i, x) ==
  LET k == IF i > Len(l) THEN Len(l) ELSE i
  IN  SubSeq(l, 1, k) \o << x >> \o SubSeq(l, k + 1, Len(l))

\* the end of the match of <lastBuildDate>.*?</lastBuildDate> that starts at
\* token i (1-based), or 0: "." matches no line break, ".*?" is lazy
LbdMatchEnd(s, i) ==
  IF s[i] # LbdOpen THEN 0
  ELSE LET closes == { j \in (i + 1)..Len(s) : s[j] = LbdClose }
       IN  IF closes = {} THEN 0
           ELSE LET j == MinOf(closes)
                IN  IF \A k \in (i + 1)..(j - 1) : s[k] # NL THEN j ELSE 0

\* re.sub(r"<lastBuildDate>.*?</lastBuildDate>", repl, s) from token i on: the
\* scan copies the text up to the leftmost match, writes the replacement and
\* goes on after the match, so every non-overlapping match is replaced
RECURSIVE ReSubFrom(_, _, _)
ReSubFrom(s, i, stamp) ==
  LET starts == { k \in i..Len(s) : LbdMatchEnd(s, k) > 0 }
  IN  IF starts = {} THEN SubSeq(s, i, Len(s))
      ELSE LET k == MinOf(starts)
           IN  SubSeq(s, i, k - 1) \o << LbdOpen, stamp, LbdClose >>
                 \o ReSubFrom(s, LbdMatchEnd(s, k) + 1, stamp)

\* the substitution as re.sub(..., count=1) would do it: a faulty variant that
\* stops after the leftmost match
ReSubFirstOnly(s, stamp) ==
  LET starts == { k \in 1..Len(s) : LbdMatchEnd(s, k) > 0 }
  IN  IF starts = {} THEN s
      ELSE LET k == MinOf(starts)
           IN  SubSeq(s, 1, k - 1) \o << LbdOpen, stamp, LbdClose >>
                 \o SubSeq(s, LbdMatchEnd(s, k) + 1, Len(s))

ReSubLastBuildDate(s, stamp) == ReSubFrom(s, 1, stamp)

(***************************************************************************)
(* The pure functions of the script.                                       *)
(***************************************************************************)
\* format_datetime(datetime.now(timezone.utc)) at clock tick n
FormatNow(n) == "now" \o ToString(n)

\* format_datetime of noon UTC on the given date (the weekday is left out)
FormatPubDate(date) ==
  ToString(date.day) \o " " \o MONTHS[date.month + 1] \o " "
    \o ToString(date.year) \o " 12:00:00 +0000"

\* get_mime_type: a lookup of the lower-cased suffix
LowerExt(ext) ==
  CASE ext = ".MP3" -> ".mp3"
    [] ext = ".M4A" -> ".m4a"
    [] OTHER -> ext

GetMimeType(ext) ==
  LET e == LowerExt(ext)
  IN  CASE e = ".mp3" -> "audio/mpeg"
        [] e = ".m4a" -> "audio/mp4"
        [] e = ".wav" -> "audio/wav"
        [] e = ".ogg" -> "audio/ogg"
        [] OTHER -> "audio/mpeg"

\* int(float(stdout)) of the probe's output, given in tenths of a second
TruncTenths(t) == t \div 10

\* one <category> line per entry, joined by a line break
RECURSIVE CategoryLines(_)
CategoryLines(cats) ==
  IF Len(cats) = 0 THEN << >>
  ELSE << "<category><![CDATA[" >> \o Strip(Head(cats)) \o << "]]></category>" >>
         \o (IF Len(cats) = 1 THEN << >> ELSE << NL, "    " >>)
         \o CategoryLines(Tail(cats))

MakeItemXml(title, link, pubDate, guid, description, audioUrl, fileSize, mimeType, duration, categories, imageUrl) ==
     << NL, SP, ItemTag >>
  \o << NL, "    <title>" >> \o title \o << "</title>" >>
  \o << NL, "    <link>", link, "</link>" >>
  \o << NL, "    <pubDate>", pubDate, "</pubDate>" >>
  \o << NL, "    <guid isPermaLink=\"false\">" >> \o guid \o << "</guid>" >>
  \o << NL, "    <dc:creator><![CDATA[Manuel Corpas]]></dc:creator>" >>
  \o << NL, "    " >> \o CategoryLines(categories)
  \o << NL, "    <description><![CDATA[", description, "]]></description>" >>
  \o << NL, "    <content:encoded><![CDATA[<p>", description, "</p>]]></content:encoded>" >>
  \o << NL, "    <enclosure url=\"" >> \o audioUrl
       \o << "\" length=\"", ToString(fileSize), "\" type=\"", mimeType, "\"/>" >>
  \o << NL, "    <itunes:duration>", ToString(duration), "</itunes:duration>" >>
  \o << NL, "    <itunes:author>Manuel Corpas</itunes:author>" >>
  \o << NL, "    <itunes:explicit>false</itunes:explicit>" >>
  \o << NL, "    <itunes:summary>", description, "</itunes:summary>" >>
  \o << NL, "    <itunes:image href=\"", imageUrl, "\"/>" >>
  \o << NL, "    <googleplay:author>Manuel Corpas</googleplay:author>" >>
  \o << NL, "    <googleplay:explicit>false</googleplay:explicit>" >>
  \o << NL, "    <googleplay:description>", description, "</googleplay:description>" >>
  \o << NL, "    <googleplay:image href=\"", imageUrl, "\"/>" >>
  \o << NL, SP, "</item>" >>

MakeIndexHtmlBlock(title, link, date, duration, description, audioFile, mimeType) ==
  LET dateStr == ToString(date.day) \o " " \o MONTHS[date.month + 1] \o " "
                   \o ToString(date.year)
      minutes == duration \div 60
  IN     << "    <div class=\"episode\">" >>
      \o << NL, "      <h2><a href=\"", link, "\">" >> \o title \o << "</a></h2>" >>
      \o << NL, "      <div class=\"meta\">", dateStr, " &middot; ",
            ToString(minutes), " min</div>" >>
      \o << NL, "      <div class=\"desc\">", description, "</div>" >>
      \o << NL, "      <audio controls preload=\"none\">" >>
      \o << NL, "        <source src=\"", audioFile, "\" type=\"", mimeType, "\">" >>
      \o << NL, "      </audio>" >>
      \o << NL, "    </div>" >>

\* a faulty variant of the normalisation: "Podcast" appended instead of
\* inserted at index 1
NormalizeCategoriesAppend(raw) ==
  LET categories == [ k \in 1..Len(SplitComma(raw)) |-> Strip(SplitComma(raw)[k]) ]
  IN  IF \A k \in 1..Len(categories) : categories[k] # << "Podcast" >>
      THEN Append(categories, << "Podcast" >>)
      ELSE categories

\* main, lines 181-183
NormalizeCategories(raw) ==
  LET categories == [ k \in 1..Len(SplitComma(raw)) |-> Strip(SplitComma(raw)[k]) ]
  IN  IF \A k \in 1..Len(categories) : categories[k] # << "Podcast" >>
      THEN ListInsert(categories, 1, << "Podcast" >>)
      ELSE categories

\* main, lines 220-221
SafeTitle(title) == ReplaceDoubleHyphen(title)

FeedComment(title) == << NL, SP, CommentOpen >> \o SafeTitle(title) \o << CommentClose >>

\* a faulty variant of the anchor selection: the anchor never switches to "<item>"
FirstItemPosChannelOnly(feedText) == Find(feedText, ChannelEnd)

\* main, lines 213-216
FirstItemPos(feedText) ==
  IF Find(feedText, ItemTag) = -1 THEN Find(feedText, ChannelEnd)
  ELSE Find(feedText, ItemTag)

\* main, line 222
SpliceFeed(feedText, pos, comment, itemXml) ==
  PyHead(feedText, pos) \o comment \o itemXml \o << NL, NL, SP >> \o PyTail(feedText, pos)

\* a faulty variant of the index anchor: the first line break of the document
\* instead of the first one after "<main>"
IndexInsertPosFirstBreak(indexText) ==
  IF Find(indexText, MainTag) # -1
  THEN Find(indexText, NL) + 1
  ELSE -1

\* main, lines 238-241: the offset the block goes to, or -1 to leave the text alone
IndexInsertPos(indexText) ==
  IF Find(indexText, MainTag) # -1
  THEN FindFrom(indexText, NL, Find(indexText, MainTag)) + 1
  ELSE -1

SpliceIndex(indexText, pos, episodeHtml) ==
  IF pos = -1 THEN indexText
  ELSE PyHead(indexText, pos) \o << NL >> \o episodeHtml \o << NL >> \o PyTail(indexText, pos)

(***************************************************************************)
(* The state: the three files main() looks at, the position of the running *)
(* invocation, its arguments and locals, and what it has reported.         *)
(***************************************************************************)
VARIABLES
  audioExists,   \* audio_path.exists()
  feedExists,    \* FEED_PATH.exists()
  feedFile,      \* the text of feed.xml
  indexExists,   \* INDEX_PATH exists
  indexFile,     \* the text of index.html
  pc,            \* the statement of main() the invocation is at
  args,          \* the parsed command line
  now,           \* the clock: one tick per invocation
  duration,      \* main's duration
  categories,    \* main's categories
  itemXml,       \* main's item_xml
  feedRead,      \* feed_text as read from feed.xml (line 201)
  feedText,      \* feed_text after re.sub (line 210)
  firstItemPos,  \* main's first_item_pos
  indexText,     \* index_text as read from index.html (line 227)
  episodeHtml,   \* main's episode_html
  insertPos,     \* main's insert_pos, -1 when the index is left alone
  probed,        \* get_duration_seconds was called by this invocation
  probe,         \* what it met: "probe", "manual", "badinput", or "none" before the call
  wroteFeed,     \* this invocation wrote feed.xml
  wroteIndex,    \* this invocation wrote index.html
  exitCode,      \* the exit status, -1 while running
  stderr,        \* what the invocation reported on the error stream
  stdout,        \* the success summary was printed
  log,           \* the invocations that ended with status 0, oldest first
  feed0,         \* the text of feed.xml before the first invocation
  index0         \* the text of index.html before the first invocation

files == << audioExists, feedExists, feedFile, indexExists, indexFile >>
locals == << duration, categories, itemXml, feedRead, feedText, firstItemPos, indexText, episodeHtml, insertPos >>
flags == << probed, probe, wroteFeed, wroteIndex >>
outcome == << exitCode, stderr, stdout >>
history == << log, feed0, index0 >>
vars == << files, pc, args, now, locals, flags, outcome, history >>

(***************************************************************************)
(* Inputs.                                                                 *)
(***************************************************************************)
Docs(alphabet, n) == UNION { [1..k -> alphabet] : k \in 0..n }

FeedAlphabet == { ItemTag, ChannelEnd, LbdOpen, LbdClose, NL }
IndexAlphabet == { MainTag, NL, "<p>" }
TitleAlphabet == { "-", "a" }
CatAlphabet == { ",", " ", "Podcast", "AI" }

SampleFeed == << "<rss>", NL, "<channel>", NL, LbdOpen, "old", LbdClose, NL, ChannelEnd, NL, "</rss>", NL >>
SampleIndex == << "<body>", NL, MainTag, NL, "</main>", NL >>

GoodDate == [ok |-> TRUE, year |-> 2026, month |-> 2, day |-> 4]
BadDate == [ok |-> FALSE, year |-> 0, month |-> 0, day |-> 0]

ArgsFor(title, cats, date) == [title |-> title, file |-> [path |-> "audio/ep", ext |-> ".mp3"], description |-> "DESC", categories |-> cats, link |-> "LINK", date |-> date, guid |-> << >>, image |-> DEFAULT_IMAGE]

NoArgs == ArgsFor(<< >>, << >>, BadDate)

\* the command lines of Spec and SpecIndex: two episodes, a date that parses or not
RunArgs == { ArgsFor(t, << "AI" >>, d) : t \in { << "A" >>, << "B" >> }, d \in { GoodDate, BadDate } }

\* the command line of SpecFeed and SpecRepeat
OneArgs == { ArgsFor(<< "A" >>, << "AI" >>, GoodDate) }

\* the command lines of SpecArgs: every title and every category list within the bounds
ManyArgs == { ArgsFor(t, << "AI" >>, GoodDate) : t \in Docs(TitleAlphabet, MaxTitleLen) } \cup { ArgsFor(<< "A" >>, c, GoodDate) : c \in Docs(CatAlphabet, MaxCatLen) }

\* what get_duration_seconds meets: the probe prints seconds (here in tenths),
\* or it fails and the user types an integer, or types something else
ProbeOutcomes == { [kind |-> "probe", value |-> 1254], [kind |-> "manual", value |-> 125], [kind |-> "badinput", value |-> 0] }

\* os.path.getsize(audio_path)
FileSize == 1000

InitWith(feeds, indexes) ==
  /\ audioExists \in BOOLEAN
  /\ feedExists \in BOOLEAN
  /\ feedFile \in (IF feedExists THEN feeds ELSE { << >> })
  /\ indexExists \in BOOLEAN
  /\ indexFile \in (IF indexExists THEN indexes ELSE { << >> })
  /\ pc = "start"
  /\ args = NoArgs
  /\ now = 0
  /\ duration = 0
  /\ categories = << >>
  /\ itemXml = << >>
  /\ feedRead = << >>
  /\ feedText = << >>
  /\ firstItemPos = 0
  /\ indexText = << >>
  /\ episodeHtml = << >>
  /\ insertPos = 0
  /\ probed = FALSE
  /\ probe = "none"
  /\ wroteFeed = FALSE
  /\ wroteIndex = FALSE
  /\ exitCode = -1
  /\ stderr = "none"
  /\ stdout = FALSE
  /\ log = << >>
  /\ feed0 = feedFile
  /\ index0 = indexFile

(***************************************************************************)
(* main(), statement by statement.                                         *)
(***************************************************************************)
\* sys.exit(code) after a message on the error stream
Exit(code, message) ==
  /\ pc' = "exited"
  /\ exitCode' = code
  /\ stderr' = message
  /\ stdout' = stdout

\* an exception nothing catches: the interpreter prints the traceback and ends
\* with status 1
Crash(exception) == Exit(1, exception)

\* lines 146-158: a new invocation parses its command line
ParseArgs(argSet) ==
  /\ pc = "start"
  /\ \E a \in argSet : args' = a
  /\ now' = now + 1
  /\ pc' = "checkAudio"
  /\ duration' = 0 /\ categories' = << >> /\ itemXml' = << >>
  /\ feedRead' = << >> /\ feedText' = << >> /\ firstItemPos' = 0
  /\ indexText' = << >> /\ episodeHtml' = << >> /\ insertPos' = 0
  /\ probed' = FALSE /\ probe' = "none" /\ wroteFeed' = FALSE /\ wroteIndex' = FALSE
  /\ exitCode' = -1 /\ stderr' = "none" /\ stdout' = FALSE
  /\ UNCHANGED << files, history >>

\* lines 160-162
CheckAudio ==
  /\ pc = "checkAudio"
  /\ IF ~audioExists
     THEN Exit(1, "Error: audio file not found")
     ELSE pc' = "checkFeed" /\ UNCHANGED outcome
  /\ UNCHANGED << files, args, now, locals, flags, history >>

\* a faulty variant of the feed check: the invocation goes on without looking
CheckFeedSkipped ==
  /\ pc = "checkFeed"
  /\ pc' = "metadata"
  /\ UNCHANGED << files, args, now, locals, flags, outcome, history >>

\* lines 164-166
CheckFeed ==
  /\ pc = "checkFeed"
  /\ IF ~feedExists
     THEN Exit(1, "Error: feed.xml not found")
     ELSE pc' = "metadata" /\ UNCHANGED outcome
  /\ UNCHANGED << files, args, now, locals, flags, history >>

\* a faulty variant of the fallback: input that is no integer counts as 0
GetDurationSecondsLenient(o) ==
  CASE o.kind = "probe" -> TruncTenths(o.value)
    [] o.kind = "manual" -> o.value
    [] OTHER -> 0

\* lines 49-64: the duration a probe outcome yields, -1 for the ValueError that
\* int(input()) raises and nothing catches
GetDurationSeconds(o) ==
  CASE o.kind = "probe" -> TruncTenths(o.value)
    [] o.kind = "manual" -> o.value
    [] OTHER -> -1

\* lines 169-173
Metadata ==
  /\ pc = "metadata"
  /\ probed' = TRUE
  /\ \E o \in ProbeOutcomes :
       /\ probe' = o.kind
       /\ IF GetDurationSeconds(o) = -1
          THEN Crash("ValueError") /\ duration' = duration
          ELSE duration' = GetDurationSeconds(o) /\ pc' = "parseDate" /\ UNCHANGED outcome
  /\ UNCHANGED << files, args, now, categories, itemXml, feedRead, feedText, firstItemPos, indexText, episodeHtml, insertPos, wroteFeed, wroteIndex, history >>

\* lines 176-179: strptime raises ValueError on a date that is not YYYY-MM-DD
ParseDate ==
  /\ pc = "parseDate"
  /\ IF ~args.date.ok
     THEN Crash("ValueError")
     ELSE pc' = "render" /\ UNCHANGED outcome
  /\ UNCHANGED << files, args, now, locals, flags, history >>

AudioUrl(a) == << BASE_URL, "/", a.file.path, a.file.ext >>

Guid(a) == IF a.guid # << >> THEN a.guid ELSE AudioUrl(a)

\* lines 181-198
Render ==
  /\ pc = "render"
  /\ categories' = NormalizeCategories(args.categories)
  /\ itemXml' = MakeItemXml(args.title, args.link, FormatPubDate(args.date), Guid(args), args.description, AudioUrl(args), FileSize, GetMimeType(args.file.ext), duration, categories', args.image)
  /\ pc' = "updateFeed"
  /\ UNCHANGED << files, args, now, duration, feedRead, feedText, firstItemPos, indexText, episodeHtml, insertPos, flags, outcome, history >>

\* lines 201-224: read_text raises FileNotFoundError when feed.xml is missing
UpdateFeed ==
  /\ pc = "updateFeed"
  /\ IF ~feedExists
     THEN /\ Crash("FileNotFoundError")
          /\ UNCHANGED << feedFile, feedRead, feedText, firstItemPos, wroteFeed >>
     ELSE /\ feedRead' = feedFile
          /\ feedText' = ReSubLastBuildDate(feedRead', FormatNow(now))
          /\ firstItemPos' = FirstItemPos(feedText')
          /\ feedFile' = SpliceFeed(feedText', firstItemPos', FeedComment(args.title), itemXml)
          /\ wroteFeed' = TRUE
          /\ pc' = "updateIndex"
          /\ UNCHANGED outcome
  /\ UNCHANGED << audioExists, feedExists, indexExists, indexFile, args, now, duration, categories, itemXml, indexText, episodeHtml, insertPos, probed, probe, wroteIndex, history >>

\* lines 227-242: read_text raises FileNotFoundError when index.html is missing
UpdateIndex ==
  /\ pc = "updateIndex"
  /\ IF ~indexExists
     THEN /\ Crash("FileNotFoundError")
          /\ UNCHANGED << indexFile, indexText, episodeHtml, insertPos, wroteIndex >>
     ELSE /\ indexText' = indexFile
          /\ episodeHtml' = MakeIndexHtmlBlock(args.title, args.link, args.date, duration, args.description, args.file.path \o args.file.ext, GetMimeType(args.file.ext))
          /\ insertPos' = IndexInsertPos(indexText')
          /\ indexFile' = SpliceIndex(indexText', insertPos', episodeHtml')
          /\ wroteIndex' = TRUE
          /\ pc' = "report"
          /\ UNCHANGED outcome
  /\ UNCHANGED << audioExists, feedExists, feedFile, indexExists, args, now, duration, categories, itemXml, feedRead, feedText, firstItemPos, probed, probe, wroteFeed, history >>

\* lines 244-250, and the return from main
Report ==
  /\ pc = "report"
  /\ stdout' = TRUE
  /\ exitCode' = 0
  /\ pc' = "exited"
  /\ log' = Append(log, [title |-> args.title, item |-> itemXml, html |-> episodeHtml, stamp |-> FormatNow(now)])
  /\ UNCHANGED << files, args, now, locals, flags, stderr, feed0, index0 >>

\* the tool is run again on the files the last invocation left
RunAgain ==
  /\ pc = "exited"
  /\ now < MaxRuns
  /\ pc' = "start"
  /\ UNCHANGED << files, args, now, locals, flags, outcome, history >>

Steps == CheckAudio \/ CheckFeed \/ Metadata \/ ParseDate \/ Render \/ UpdateFeed \/ UpdateIndex \/ Report

(***************************************************************************)
(* Specifications.                                                         *)
(***************************************************************************)
\* repeated invocations on every short feed document
Init == InitWith(Docs(FeedAlphabet, MaxDocLen), { SampleIndex })
Next == ParseArgs(RunArgs) \/ Steps \/ RunAgain
Spec == Init /\ [][Next]_vars

\* one invocation on every feed document within MaxFeedLen
InitFeed == InitWith(Docs(FeedAlphabet, MaxFeedLen), { SampleIndex })
NextFeed == ParseArgs(OneArgs) \/ Steps
SpecFeed == InitFeed /\ [][NextFeed]_vars

\* the same command line given again and again on every feed document within
\* MaxFeedLen
InitRepeat == InitWith(Docs(FeedAlphabet, MaxFeedLen), { SampleIndex })
NextRepeat == ParseArgs(OneArgs) \/ Steps \/ RunAgain
SpecRepeat == InitRepeat /\ [][NextRepeat]_vars

\* repeated invocations on every index document within MaxIndexLen
InitIndex == InitWith({ SampleFeed }, Docs(IndexAlphabet, MaxIndexLen))
NextIndex == ParseArgs(RunArgs) \/ Steps \/ RunAgain
SpecIndex == InitIndex /\ [][NextIndex]_vars

\* one invocation with every title and every category list within the bounds
InitArgs == InitWith({ SampleFeed }, { SampleIndex })
NextArgs == ParseArgs(ManyArgs) \/ Steps
SpecArgs == InitArgs /\ [][NextArgs]_vars

(***************************************************************************)
(* Vocabulary of the properties.                                           *)
(***************************************************************************)
Has(s, tok) == \E i \in 1..Len(s) : s[i] = tok

\* k is the place (1-based) of the first tok of s
FirstAt(s, tok, k) == k \in 1..Len(s) /\ s[k] = tok /\ \A m \in 1..(k - 1) : s[m] # tok

\* t occurs in s from place i on
OccursAt(s, t, i) == i >= 1 /\ i + Len(t) - 1 <= Len(s) /\ SubSeq(s, i, i + Len(t) - 1) = t

\* new is old with frag put in right before place k
InsertedBefore(old, new, frag, k) == new = SubSeq(old, 1, k - 1) \o frag \o SubSeq(old, k, Len(old))

\* what one invocation adds to the feed: the comment, the item, a blank line
NewFragment == << NL, SP, CommentOpen >> \o SafeTitle(args.title) \o << CommentClose >> \o itemXml \o << NL, NL, SP >>

\* a lastBuildDate element of s: an opening tag at a and the next closing tag at b
LbdElement(s, a, b) == a \in 1..Len(s) /\ b \in (a + 1)..Len(s) /\ s[a] = LbdOpen /\ s[b] = LbdClose /\ \A m \in (a + 1)..(b - 1) : s[m] # LbdClose

\* such an element with no line break in it
OneLineElement(s, a, b) == LbdElement(s, a, b) /\ \A m \in (a + 1)..(b - 1) : s[m] # NL

\* the places of s that are not inside a one-line lastBuildDate element
Outside(s) == { i \in 1..Len(s) : ~ \E a \in 1..(i - 1), b \in (i + 1)..Len(s) : OneLineElement(s, a, b) }

\* the tokens of s at the places K, in order
Pick(s, K) == [ n \in 1..Cardinality(K) |-> s[CHOOSE i \in K : Cardinality({ m \in K : m <= i }) = n] ]

NoDoubleHyphen(t) == \A i \in 1..(Len(t) - 1) : ~ (t[i] = "-" /\ t[i + 1] = "-")

Rendered == pc \in { "updateFeed", "updateIndex", "report" } \/ (pc = "exited" /\ wroteFeed)

(***************************************************************************)
(* C1: a feed without "<item>" gets the comment and the new item right     *)
(* before its first "</channel>"; the feed written then holds "<item>",    *)
(* and a feed that holds "<item>" gets them right before its first         *)
(* "<item>": the anchor switches as soon as an item exists.                *)
(***************************************************************************)
C1_AnchorSelection ==
  wroteFeed =>
    /\ Has(feedFile, ItemTag)
    /\ \A k \in 1..Len(feedText) :
         /\ (FirstAt(feedText, ChannelEnd, k) /\ ~ Has(feedRead, ItemTag)) => InsertedBefore(feedText, feedFile, NewFragment, k)
         /\ FirstAt(feedText, ItemTag, k) => InsertedBefore(feedText, feedFile, NewFragment, k)

\* two runs in a row: the first found no item and used "</channel>", the second
\* used the "<item>" the first had written
C1_Witness ==
  /\ pc = "exited" /\ Len(log) = 2 /\ wroteFeed
  /\ ~ Has(feed0, ItemTag) /\ Has(feed0, ChannelEnd)
  /\ Has(feedRead, ItemTag)
  /\ \E k \in 1..Len(feedText) : FirstAt(feedText, ItemTag, k) /\ InsertedBefore(feedText, feedFile, NewFragment, k)

(***************************************************************************)
(* C2: after two successful runs in a row the feed holds both items, the   *)
(* later run's item before the earlier run's, and every lastBuildDate      *)
(* element holds the later run's timestamp.                                *)
(***************************************************************************)
C2_TwoRuns ==
  (pc = "exited" /\ Len(log) >= 2) =>
    LET earlier == log[Len(log) - 1]
        later == log[Len(log)]
    IN  /\ \E i, j \in 1..Len(feedFile) : i < j /\ OccursAt(feedFile, later.item, i) /\ OccursAt(feedFile, earlier.item, j)
        /\ \A a, b \in 1..Len(feedFile) : LbdElement(feedFile, a, b) => SubSeq(feedFile, a + 1, b - 1) = << later.stamp >>

(***************************************************************************)
(* C3: with the audio file missing, or the feed missing, the run ends with *)
(* status 1 and the matching message (the audio check first), and nothing  *)
(* was probed or written before.                                           *)
(***************************************************************************)
C3_ValidationFirst ==
  (~ audioExists \/ ~ feedExists) =>
    /\ ~ probed /\ ~ wroteFeed /\ ~ wroteIndex
    /\ feedFile = feed0 /\ indexFile = index0
    /\ pc \in { "start", "checkAudio", "checkFeed", "exited" }
    /\ pc = "exited" =>
         /\ exitCode = 1
         /\ stderr = (IF ~ audioExists THEN "Error: audio file not found" ELSE "Error: feed.xml not found")

C3_Witness == pc = "exited" /\ audioExists /\ ~ feedExists /\ exitCode = 1 /\ stderr = "Error: feed.xml not found"

(***************************************************************************)
(* C4, as stated: status 1 exactly when the audio file or the feed is      *)
(* missing; every other run writes both documents, prints the summary and  *)
(* ends with status 0.                                                     *)
(***************************************************************************)
C4_Original ==
  pc = "exited" =>
    IF ~ audioExists \/ ~ feedExists
    THEN exitCode = 1
    ELSE exitCode = 0 /\ wroteFeed /\ wroteIndex /\ stdout

(***************************************************************************)
(* C4, amended: status 1 with nothing written when the audio file or the   *)
(* feed is missing.  Otherwise the run ends with an uncaught exception     *)
(* (status 1, no summary) when the probe failed and the typed duration is  *)
(* no integer, or the date does not parse (nothing written), or index.html *)
(* is missing (the feed already written); in every other case it writes    *)
(* both documents, prints the summary and ends with status 0.              *)
(***************************************************************************)
C4_ExitBehaviour ==
  pc = "exited" =>
    IF ~ audioExists \/ ~ feedExists
      THEN exitCode = 1 /\ ~ wroteFeed /\ ~ wroteIndex /\ ~ stdout
    ELSE IF probe = "badinput" \/ ~ args.date.ok
      THEN exitCode = 1 /\ stderr = "ValueError" /\ ~ wroteFeed /\ ~ wroteIndex /\ ~ stdout
    ELSE IF ~ indexExists
      THEN exitCode = 1 /\ stderr = "FileNotFoundError" /\ wroteFeed /\ ~ wroteIndex /\ ~ stdout
    ELSE exitCode = 0 /\ stderr = "none" /\ wroteFeed /\ wroteIndex /\ stdout

\* a run with audio file and feed in place that still ends with status 1
C4_Witness == pc = "exited" /\ audioExists /\ feedExists /\ probe = "badinput" /\ exitCode = 1 /\ ~ wroteFeed

(***************************************************************************)
(* C5: the entries of --categories are trimmed; when "Podcast" is not      *)
(* among them it is put at index 1 and the others keep their order; when   *)
(* it is, the list is the trimmed entries and nothing is inserted.         *)
(***************************************************************************)
C5_CategoryNormalization ==
  Rendered =>
    LET entries == SplitComma(args.categories)
        trimmed == [ k \in 1..Len(entries) |-> Strip(entries[k]) ]
    IN  /\ \A k \in 1..Len(categories) : categories[k] = << >> \/ (Head(categories[k]) # " " /\ categories[k][Len(categories[k])] # " ")
        /\ IF \E k \in 1..Len(trimmed) : trimmed[k] = << "Podcast" >>
           THEN categories = trimmed
           ELSE /\ Len(categories) = Len(trimmed) + 1
                /\ categories[1] = trimmed[1]
                /\ categories[2] = << "Podcast" >>
                /\ \A k \in 2..Len(trimmed) : categories[k + 1] = trimmed[k]

\* "Podcast" inserted between two entries that were given
C5_Witness == Rendered /\ Len(categories) = 3 /\ categories[2] = << "Podcast" >> /\ categories[1] # << "Podcast" >> /\ categories[3] # << "Podcast" >> /\ Has(args.categories, " ")

(***************************************************************************)
(* C6: the title part of the "Episode:" comment written to the feed holds  *)
(* no two hyphens in a row, whatever the title.                            *)
(***************************************************************************)
C6_NoDoubleHyphenInComment ==
  wroteFeed =>
    \A i, j \in 1..Len(feedFile) :
      (FirstAt(feedFile, CommentOpen, i) /\ j > i /\ feedFile[j] = CommentClose /\ \A m \in (i + 1)..(j - 1) : feedFile[m] # CommentClose)
        => NoDoubleHyphen(SubSeq(feedFile, i + 1, j - 1))

(***************************************************************************)
(* C7: with "<main>" and a line break after it in the index, the block     *)
(* (between two line breaks) goes right after the first line break that    *)
(* follows the first "<main>", so after repeated runs the latest block is  *)
(* the first; without "<main>" the index is written back as it was read.   *)
(***************************************************************************)
C7_IndexInsertion ==
  wroteIndex =>
    /\ ~ Has(indexText, MainTag) => indexFile = indexText
    /\ \A p \in 1..Len(indexText) : FirstAt(indexText, MainTag, p) => \A q \in (p + 1)..Len(indexText) :
         (indexText[q] = NL /\ \A m \in (p + 1)..(q - 1) : indexText[m] # NL)
           => /\ InsertedBefore(indexText, indexFile, << NL >> \o episodeHtml \o << NL >>, q + 1)
              /\ (pc = "exited" /\ exitCode = 0 /\ Len(log) >= 2)
                   => /\ OccursAt(indexFile, log[Len(log)].html, q + 2)
                      /\ \E r \in (q + 3)..Len(indexFile) : OccursAt(indexFile, log[Len(log) - 1].html, r)

\* the second of two successful runs on an index whose "<main>" is not on the
\* first line
C7_Witness ==
  /\ pc = "exited" /\ exitCode = 0 /\ Len(log) = 2 /\ wroteIndex
  /\ \E p, q \in 2..Len(indexText) : FirstAt(indexText, MainTag, p) /\ q > p /\ indexText[q] = NL /\ Has(SubSeq(indexText, 1, p), NL)

(***************************************************************************)
(* C8, as stated: only the text of the first lastBuildDate element is      *)
(* replaced by the timestamp; everything else of the feed read is carried  *)
(* over.                                                                   *)
(***************************************************************************)
C8_Original ==
  wroteFeed =>
    /\ (~ \E a, b \in 1..Len(feedRead) : FirstAt(feedRead, LbdOpen, a) /\ LbdElement(feedRead, a, b)) => feedText = feedRead
    /\ \A a, b \in 1..Len(feedRead) :
         (FirstAt(feedRead, LbdOpen, a) /\ LbdElement(feedRead, a, b))
           => feedText = SubSeq(feedRead, 1, a) \o << FormatNow(now) >> \o SubSeq(feedRead, b, Len(feedRead))

(***************************************************************************)
(* C8, amended: the text of every lastBuildDate element that lies on one   *)
(* line is replaced by the timestamp, not only the first; an element with  *)
(* a line break in it and every token outside the elements are carried     *)
(* over, and the feed written is that text with the comment, the item and  *)
(* a blank line put in at one place (between two tokens, or before the     *)
(* last character of the text).                                            *)
(***************************************************************************)
C8_EveryOneLineElement ==
  wroteFeed =>
    /\ \A a, b \in 1..Len(feedText) : OneLineElement(feedText, a, b) => (b = a + 2 /\ feedText[a + 1] = FormatNow(now))
    /\ Pick(feedText, Outside(feedText)) = Pick(feedRead, Outside(feedRead))
    /\ \/ \E k \in 1..(Len(feedText) + 1) : InsertedBefore(feedText, feedFile, NewFragment, k)
       \/ \E k \in 1..Len(feedFile), h \in 0..1 :
            /\ Len(feedText) > 0
            /\ feedFile = SubSeq(feedFile, 1, k - 1) \o NewFragment \o << feedFile[Len(feedFile)] >>
            /\ k - 1 = Len(feedText) - 1 + h
            /\ SubSeq(feedFile, 1, Len(feedText) - 1) = SubSeq(feedText, 1, Len(feedText) - 1)
            /\ feedText[Len(feedText)] = (IF h = 1 THEN feedFile[k - 1] ELSE "") \o feedFile[Len(feedFile)]

\* a feed with two one-line elements, both holding the timestamp afterwards
C8_Witness ==
  /\ wroteFeed
  /\ \E a, b, c, d \in 1..Len(feedRead) : b < c /\ OneLineElement(feedRead, a, b) /\ OneLineElement(feedRead, c, d)
  /\ Cardinality({ i \in 1..Len(feedFile) : feedFile[i] = FormatNow(now) }) = 2

(***************************************************************************)
(* C9: when the index holds "<main>", the block is put in after the first  *)
(* "<main>", also when no line break follows it.                           *)
(***************************************************************************)
C9_BlockAfterMain ==
  wroteIndex =>
    \A p \in 1..Len(indexText) :
      FirstAt(indexText, MainTag, p) => (insertPos >= p /\ SubSeq(indexFile, 1, p) = SubSeq(indexText, 1, p))

(***************************************************************************)
(* C10: after successful runs on a feed that had no item, every "Episode:" *)
(* comment is followed, with only white space between, by the item of the  *)
(* same title.                                                             *)
(***************************************************************************)
C10_CommentsPaired ==
  (pc = "exited" /\ now >= 1 /\ Len(log) = now /\ ~ Has(feed0, ItemTag)) =>
    \A i \in 1..Len(feedFile) :
      feedFile[i] = CommentOpen =>
        \E j \in (i + 1)..Len(feedFile), k \in (i + 2)..Len(feedFile) :
          /\ feedFile[j] = CommentClose /\ j < k
          /\ \A m \in (i + 1)..(j - 1) : feedFile[m] # CommentClose
          /\ \A m \in (j + 1)..(k - 1) : feedFile[m] \in { NL, SP }
          /\ OccursAt(feedFile, << ItemTag, NL, "    <title>" >> \o SubSeq(feedFile, i + 1, j - 1) \o << "</title>" >>, k)

=============================================================================
